---- MODULE Spec2Model ----
(***************************************************************************)
(* Model of the purchase orchestration script test_real_purchase.py:       *)
(* credential check, availability probe, job creation, payment submission, *)
(* bounded status monitoring and the final summary.  The remote services   *)
(* are the environment: every response they can give is drawn from a small *)
(* set of JSON values, HTTP errors and transport failures.                 *)
(***************************************************************************)
EXTENDS Integers, Sequences, FiniteSets, TLC

(***************************************************************************)
(* Bounds of the model                                                     *)
(***************************************************************************)
\* status polls after which the environment lets the clock run to the deadline
MaxPolls == 2
\* reading of the wall clock when the run starts
StartClock == 7
\* the same as MaxPolls, for the runs that are paid without incident
MonitorPolls == 3
\* polls the environment answers freely before it repeats itself
TermPolls == 2

(***************************************************************************)
(* Program constants                                                       *)
(***************************************************************************)
max_wait == 300
poll_interval == 5
LOVELACE_PER_ADA == 1000000

(***************************************************************************)
(* JSON / Python values.  None and JSON null are the same value.           *)
(***************************************************************************)
Null == [t |-> "null"]
Str(s) == [t |-> "str", s |-> s]
\* a string kept character by character, so that int() can be computed on it
Chars(c) == [t |-> "str", c |-> c]
Num(n) == [t |-> "num", n |-> n]
Arr(a) == [t |-> "arr", a |-> a]
Obj(o) == [t |-> "obj", o |-> o]

IsObj(v) == v.t = "obj"
IsArr(v) == v.t = "arr"

\* Python truthiness of a value (`not x`, `if x`, `x or y`)
Truthy(v) ==
    CASE v.t = "null" -> FALSE
      [] v.t = "str" -> IF "c" \in DOMAIN v THEN Len(v.c) > 0 ELSE v.s # ""
      [] v.t = "num" -> v.n # 0
      [] v.t = "arr" -> Len(v.a) > 0
      [] v.t = "obj" -> DOMAIN v.o # {}

\* results of evaluating an expression that may raise
Ok(v) == [ok |-> TRUE, v |-> v]
\* an exception: its class and the text str(e) gives
Exc(type, text) == [type |-> type, text |-> text]
Raise(type, text) == [ok |-> FALSE, exc |-> Exc(type, text)]

\* d[k] on a JSON value: KeyError on a dict without k, TypeError on a non-dict
Subscript(d, k) ==
    IF IsObj(d)
    THEN IF k \in DOMAIN d.o THEN Ok(d.o[k]) ELSE Raise("KeyError", k)
    ELSE Raise("TypeError", "not subscriptable")

\* a[0] on a JSON value
First(a) ==
    IF IsArr(a)
    THEN IF Len(a.a) > 0 THEN Ok(a.a[1]) ELSE Raise("IndexError", "list index out of range")
    ELSE IF IsObj(a) THEN Raise("KeyError", "0")
    ELSE Raise("TypeError", "not subscriptable")

\* d.get(k, default): AttributeError when d is not a dict
Get(d, k, default) ==
    IF IsObj(d)
    THEN Ok(IF k \in DOMAIN d.o THEN d.o[k] ELSE default)
    ELSE Raise("AttributeError", "object has no attribute 'get'")

DigitVal(ch) ==
    CASE ch = "0" -> 0 [] ch = "1" -> 1 [] ch = "2" -> 2 [] ch = "3" -> 3
      [] ch = "4" -> 4 [] ch = "5" -> 5 [] ch = "6" -> 6 [] ch = "7" -> 7
      [] ch = "8" -> 8 [] ch = "9" -> 9 [] OTHER -> -1

RECURSIVE ParseDigits(_, _)
\* value of a digit sequence, -1 when a character is not a digit
ParseDigits(c, acc) ==
    IF c = <<>> THEN acc
    ELSE IF DigitVal(Head(c)) < 0 THEN -1
    ELSE ParseDigits(Tail(c), acc * 10 + DigitVal(Head(c)))

\* int(v), for the unsigned amounts the services send
PyInt(v) ==
    CASE v.t = "num" -> Ok(v.n)
      [] v.t = "str" ->
            IF "c" \in DOMAIN v /\ Len(v.c) > 0 /\ ParseDigits(v.c, 0) >= 0
            THEN Ok(ParseDigits(v.c, 0))
            ELSE Raise("ValueError", "invalid literal for int()")
      [] OTHER -> Raise("TypeError", "int() argument must be a string or a number")

\* n / 1_000_000 kept exactly, as whole ADA and the remaining millionths
ToAda(n) == [whole |-> n \div LOVELACE_PER_ADA, micro |-> n % LOVELACE_PER_ADA]

(***************************************************************************)
(* Responses of the remote services                                        *)
(***************************************************************************)
\* requests raised an exception before any response arrived
TransportError(e) == [kind |-> "transport", exc |-> Exc(e, e)]
\* a response whose status makes raise_for_status() raise HTTPError
HttpError(code, text) == [kind |-> "http_error", code |-> code, text |-> text]
\* a success response whose body parses to the JSON value body
HttpOk(json) == [kind |-> "ok", body |-> json]
\* a success response whose body is not JSON: response.json() raises
HttpOkNotJson == [kind |-> "ok_not_json"]

TransportErrors == {TransportError("ConnectionError"), TransportError("ReadTimeout")}

\* str(e) of the HTTPError raised for a response: status line only, no body
HttpErrorText(r) == r.code

\* the exception a request raises for response r (r.kind # "ok")
ExcOf(r) ==
    CASE r.kind = "transport" -> r.exc
      [] r.kind = "http_error" -> Exc("HTTPError", HttpErrorText(r))
      [] r.kind = "ok_not_json" -> Exc("JSONDecodeError", "Expecting value")

AvailabilityResponses ==
    TransportErrors
      \cup {HttpError("503 Server Error", "unavailable"), HttpOk(Obj([status |-> Str("available")])),
            HttpOkNotJson}

\* the keys main() reads from the job-creation response
RequiredKeys ==
    {"job_id", "blockchainIdentifier", "input_hash", "sellerVKey", "agentIdentifier",
     "unlockTime", "externalDisputeUnlockTime", "submitResultTime", "payByTime",
     "identifierFromPurchaser", "amounts"}

Amount(a, u) == Obj([amount |-> a, unit |-> Str(u)])

JobDataA ==
    [job_id |-> Str("job-A"), blockchainIdentifier |-> Str("chain-A"),
     input_hash |-> Str("hash-A"), sellerVKey |-> Str("vkey-A"),
     agentIdentifier |-> Str("agent-A"), unlockTime |-> Str("1001"),
     externalDisputeUnlockTime |-> Str("1002"), submitResultTime |-> Str("1003"),
     payByTime |-> Str("1004"), identifierFromPurchaser |-> Str("purchaser-A"),
     amounts |-> Arr(<<Amount(Chars(<<"5", "0", "0", "0", "0", "0", "0">>), "")>>)]

JobDataB ==
    [job_id |-> Str("job-B"), blockchainIdentifier |-> Str("chain-B"),
     input_hash |-> Str("hash-B"), sellerVKey |-> Str("vkey-B"),
     agentIdentifier |-> Str("agent-B"), unlockTime |-> Str("2001"),
     externalDisputeUnlockTime |-> Str("2002"), submitResultTime |-> Str("2003"),
     payByTime |-> Str("2004"), identifierFromPurchaser |-> Str("purchaser-B"),
     amounts |-> Arr(<<Amount(Num(1500000), ""), Amount(Chars(<<"7">>), "token")>>)]

\* a response that also names a network and a payment type
JobDataC ==
    [k \in RequiredKeys \cup {"network", "paymentType"} |->
        CASE k = "network" -> Str("Mainnet")
          [] k = "paymentType" -> Str("Web3CardanoV2")
          [] OTHER -> JobDataA[k]]

Without(d, k) == [x \in DOMAIN d \ {k} |-> d[x]]
WithKey(d, k, v) == [x \in DOMAIN d \cup {k} |-> IF x = k THEN v ELSE d[x]]

\* amounts values from which no numeric first amount can be read
BadAmounts ==
    {Null, Arr(<<>>), Arr(<<Obj([unit |-> Str("")])>>),
     Arr(<<Amount(Str("five"), "")>>), Arr(<<Amount(Null, "")>>)}

StartJobBodies ==
    {Obj(JobDataA), Obj(JobDataB), Obj(JobDataC)}
      \cup {Obj(Without(JobDataA, k)) : k \in RequiredKeys}
      \cup {Obj(WithKey(JobDataA, "amounts", a)) : a \in BadAmounts}
      \cup {Arr(<<>>), Null}

StartJobResponses ==
    TransportErrors
      \cup {HttpError("500 Server Error", "internal error"), HttpOkNotJson}
      \cup {HttpOk(b) : b \in StartJobBodies}

EmptyObj == Obj([k \in {} |-> Null])

PurchaseBodies ==
    {EmptyObj,
     Obj([data |-> EmptyObj]),
     Obj([data |-> Null]),
     Obj([data |-> Obj([status |-> Str("queued")])]),
     Obj([data |-> Obj([txHash |-> Str("abc123")])]),
     Obj([data |-> Obj([txHash |-> Str(""), transactionHash |-> Str("def456")])]),
     Arr(<<>>)}

InsufficientFunds == "{\"message\":\"insufficient funds\"}"

PurchaseResponses ==
    TransportErrors
      \cup {HttpError("400 Client Error", InsufficientFunds),
            HttpError("401 Client Error", ""), HttpOkNotJson}
      \cup {HttpOk(b) : b \in PurchaseBodies}

StatusBody(s, p) == Obj([status |-> Str(s), payment_status |-> Str(p)])

StatusBodies ==
    {StatusBody("pending", "pending"), StatusBody("pending", "paid"),
     StatusBody("running", "paid"), StatusBody("completed", "paid"),
     Obj([status |-> Str("completed"), payment_status |-> Str("paid"),
          result |-> Str("email sent")]),
     StatusBody("failed", "paid"),
     Obj([payment_status |-> Str("pending")])}

StatusResponses ==
    {TransportError("ReadTimeout"), HttpError("502 Server Error", "bad gateway"),
     HttpOkNotJson}
      \cup {HttpOk(b) : b \in StatusBodies}

\* time a status request may take, and time a sleep may overrun
RequestDelays == {0, 2}
SleepOverruns == {0, max_wait - poll_interval}

\* what the user types at the three prompts ("" is an empty line)
Inputs == {[recipient_email |-> "a@b.example", subject |-> "", body |-> ""]}

(***************************************************************************)
(* State of one run of main()                                              *)
(***************************************************************************)
VARIABLES
    pc,                 \* position of the run in main()
    PURCHASER_API_KEY,  \* environment
    NETWORK,            \* environment
    now,                \* time.time()
    requests,           \* requests issued so far, in order
    responses,          \* outcome of each request that has returned
    out,                \* lines printed so far
    payload,
    job_data, job_id, blockchain_id, amount_lovelace, amount_ada,
    payment_details, explorer_url,
    payment_result, tx_hash,
    start_time, last_status,
    interrupt           \* "pending" once a SIGINT has asked to cancel the main task

envv == <<PURCHASER_API_KEY, NETWORK>>
netv == <<requests, responses>>
jobv == <<job_data, job_id, blockchain_id, amount_lovelace, amount_ada, payment_details>>
payv == <<payment_result, tx_hash>>
monv == <<start_time, last_status>>

(***************************************************************************)
(* State of one call of EmailService.execute_task (emailService.py)        *)
(***************************************************************************)
VARIABLES
    ChatGoogleGenerativeAI, \* the imported class, None when the import failed
    gemini_api_key,         \* GOOGLE_API_KEY, "" when not set
    brevo_api_key,          \* BREVO_API_KEY, "" when not set
    sender_email,           \* SENDER_EMAIL, "" when not set
    email_pc,               \* position of the call in execute_task
    input_data,
    recipient_email, subject, body,
    invoked,                \* calls of chain.invoke, each with its outcome
    send_calls,             \* calls of send_transac_email, each with its outcome
    result                  \* what execute_task returned

emailv == <<ChatGoogleGenerativeAI, gemini_api_key, brevo_api_key, sender_email,
            email_pc, input_data, recipient_email, subject, body,
            invoked, send_calls, result>>

mainv == <<pc, envv, now, netv, out, payload, jobv, explorer_url, payv, monv, interrupt>>
vars == <<mainv, emailv>>

\* a local variable that has not been assigned
Unset == [t |-> "unset"]

\* one printed line: which print helper produced it and what it says
Msg(k, text) == [k |-> k, text |-> text]

Emit(ms) == out' = out \o ms

Sent(to) == {i \in 1..Len(requests) : requests[i].to = to}

\* the script does not import emailService: no call of execute_task in its run
NoEmailService ==
    /\ ChatGoogleGenerativeAI = Null
    /\ gemini_api_key = Str("") /\ brevo_api_key = Str("") /\ sender_email = Str("")
    /\ email_pc = "none"
    /\ input_data = Unset
    /\ recipient_email = Unset /\ subject = Unset /\ body = Unset
    /\ invoked = <<>> /\ send_calls = <<>>
    /\ result = Unset

Init ==
    /\ pc = "config"
    /\ PURCHASER_API_KEY \in {Null, Str(""), Str("purchaser-key")}
    /\ NETWORK \in {"Preprod", "Mainnet"}
    /\ now = StartClock
    /\ requests = <<>>
    /\ responses = <<>>
    /\ out = <<>>
    /\ payload = Unset
    /\ job_data = Unset /\ job_id = Unset /\ blockchain_id = Unset
    /\ amount_lovelace = Unset /\ amount_ada = Unset
    /\ payment_details = Unset /\ explorer_url = Unset
    /\ payment_result = Unset /\ tx_hash = Unset
    /\ start_time = Unset /\ last_status = Unset
    /\ interrupt = "none"
    /\ NoEmailService

(***************************************************************************)
(* Configuration and credential check                                      *)
(***************************************************************************)
\* variant: only an unset variable counts as missing
CredentialMissingNoneOnly(key) == key = Null

\* `if not PURCHASER_API_KEY`
CredentialMissing(key) == ~Truthy(key)

CheckCredential ==
    /\ pc = "config"
    /\ IF CredentialMissing(PURCHASER_API_KEY)
       THEN /\ Emit(<<Msg("header", <<"SETUP REQUIRED: Purchaser Wallet Configuration">>),
                       Msg("warning", <<"You need to set up a purchaser wallet first!">>),
                       Msg("guidance", <<"Follow these steps:">>)>>)
            /\ pc' = "done"
       ELSE /\ Emit(<<Msg("success", <<"Purchaser wallet configured!">>)>>)
            /\ pc' = "availability"
    /\ UNCHANGED <<emailv, envv, interrupt, now, netv, payload, jobv, explorer_url, payv, monv>>

(***************************************************************************)
(* Step 1: availability                                                    *)
(***************************************************************************)
AvailabilitySend ==
    /\ pc = "availability"
    /\ Emit(<<Msg("header", <<"Step 1: Checking Service Availability">>)>>)
    /\ requests' = Append(requests, [to |-> "availability"])
    /\ pc' = "availability_wait"
    /\ UNCHANGED <<emailv, envv, interrupt, now, responses, payload, jobv, explorer_url, payv, monv>>

\* variant: raise_for_status() is not called, only exceptions of the request fail
StatusOkUnchecked(r) == r.kind # "transport"

\* raise_for_status() passed: the body is not looked at
StatusOk(r) == r.kind \in {"ok", "ok_not_json"}

AvailabilityRecv(r) ==
    /\ pc = "availability_wait"
    /\ responses' = Append(responses, r)
    /\ IF StatusOk(r)
       THEN /\ Emit(<<Msg("success", <<"AI Service is online and ready!">>)>>)
            /\ pc' = "input"
       ELSE /\ Emit(<<Msg("error", <<"Cannot connect to service: ", ExcOf(r).text>>),
                       Msg("warning", <<"Make sure to run: python main.py api">>)>>)
            /\ pc' = "done"
    /\ UNCHANGED <<emailv, envv, interrupt, now, requests, payload, jobv, explorer_url, payv, monv>>

(***************************************************************************)
(* Step 2: job creation                                                    *)
(***************************************************************************)
PURCHASER_IDENTIFIER == "2ccab9ca3c8fd56f"

OrDefault(typed, default) == IF typed # "" THEN typed ELSE default

\* the three prompts; an exhausted stdin raises EOFError out of main()
CollectInput(typed) ==
    /\ pc = "input"
    /\ payload' =
          Obj([identifier_from_purchaser |-> Str(PURCHASER_IDENTIFIER),
               input_data |->
                  Obj([recipient_email |->
                          Str(OrDefault(typed.recipient_email, "user@example.com")),
                       subject |-> Str(OrDefault(typed.subject, "Test Email Subject")),
                       body |-> Str(OrDefault(typed.body,
                                   "This is a test email sent via Masumi-paid agent."))])])
    /\ Emit(<<Msg("header", <<"Step 2: Creating Service Request with Payment">>),
              Msg("info", <<"Requesting email">>)>>)
    /\ pc' = "start_job"
    /\ UNCHANGED <<emailv, envv, interrupt, now, netv, jobv, explorer_url, payv, monv>>

InputEOF ==
    /\ pc = "input"
    /\ Emit(<<Msg("header", <<"Step 2: Creating Service Request with Payment">>),
              Msg("uncaught", <<"Error: ", "EOF when reading a line">>)>>)
    /\ pc' = "done"
    /\ UNCHANGED <<emailv, envv, interrupt, now, netv, payload, jobv, explorer_url, payv, monv>>

StartJobSend ==
    /\ pc = "start_job"
    /\ requests' = Append(requests, [to |-> "start_job", json |-> payload])
    /\ pc' = "start_job_wait"
    /\ UNCHANGED <<emailv, envv, interrupt, now, responses, out, payload, jobv, explorer_url, payv, monv>>

\* job_data["amounts"][0]["amount"]
AmountLovelace(jd) ==
    LET amounts == Subscript(jd, "amounts")
        first == IF amounts.ok THEN First(amounts.v) ELSE amounts
    IN  IF first.ok THEN Subscript(first.v, "amount") ELSE first

\* int(amount_lovelace), reached only when amount_lovelace was read
AmountInt(jd) ==
    IF AmountLovelace(jd).ok THEN PyInt(AmountLovelace(jd).v) ELSE AmountLovelace(jd)

\* the reads of job_data in the order main() makes them
JobReads(jd) ==
    <<Subscript(jd, "job_id"), Subscript(jd, "blockchainIdentifier"),
      AmountLovelace(jd), AmountInt(jd),
      Subscript(jd, "input_hash"), Subscript(jd, "sellerVKey"),
      Subscript(jd, "agentIdentifier"), Subscript(jd, "unlockTime"),
      Subscript(jd, "externalDisputeUnlockTime"), Subscript(jd, "submitResultTime"),
      Subscript(jd, "payByTime"), Subscript(jd, "identifierFromPurchaser"),
      Subscript(jd, "amounts")>>

\* the first read that raises, or Ok when none does
FirstRaise(rs) ==
    IF \E i \in 1..Len(rs) : ~rs[i].ok
    THEN rs[CHOOSE i \in 1..Len(rs) : ~rs[i].ok /\ \A j \in 1..(i - 1) : rs[j].ok]
    ELSE Ok(Null)

\* variant: the first amount is forwarded as converted for display (whole ADA)
PaymentDetailsConverted(jd, network) ==
    Obj([blockchainIdentifier |-> jd.o["blockchainIdentifier"],
         network |-> Str(network),
         inputHash |-> jd.o["input_hash"],
         sellerVkey |-> jd.o["sellerVKey"],
         agentIdentifier |-> jd.o["agentIdentifier"],
         paymentType |-> Str("Web3CardanoV1"),
         unlockTime |-> jd.o["unlockTime"],
         externalDisputeUnlockTime |-> jd.o["externalDisputeUnlockTime"],
         submitResultTime |-> jd.o["submitResultTime"],
         payByTime |-> jd.o["payByTime"],
         identifierFromPurchaser |-> jd.o["identifierFromPurchaser"],
         amounts |->
            Arr([jd.o["amounts"].a EXCEPT
                   ![1] = Obj([@.o EXCEPT
                                 !["amount"] = Num(ToAda(PyInt(@).v).whole)])])])

\* the payment_details dict built from a job_data all of whose reads succeed
PaymentDetails(jd, network) ==
    Obj([blockchainIdentifier |-> jd.o["blockchainIdentifier"],
         network |-> Str(network),
         inputHash |-> jd.o["input_hash"],
         sellerVkey |-> jd.o["sellerVKey"],
         agentIdentifier |-> jd.o["agentIdentifier"],
         paymentType |-> Str("Web3CardanoV1"),
         unlockTime |-> jd.o["unlockTime"],
         externalDisputeUnlockTime |-> jd.o["externalDisputeUnlockTime"],
         submitResultTime |-> jd.o["submitResultTime"],
         payByTime |-> jd.o["payByTime"],
         identifierFromPurchaser |-> jd.o["identifierFromPurchaser"],
         amounts |-> jd.o["amounts"]])

ExplorerUrl(network, id) ==
    <<IF network = "Preprod" THEN "https://preprod.cardanoscan.io/transaction/"
      ELSE "https://cardanoscan.io/transaction/", id>>

\* variant: the except clause reports the error and falls through to step 3
JobFailedNoReturn(e) ==
    /\ Emit(<<Msg("error", <<"Failed to create job: ", e.text>>)>>)
    /\ pc' = "purchase"
    /\ UNCHANGED <<job_id, blockchain_id, amount_lovelace, amount_ada, payment_details,
                   explorer_url>>

\* what the except clause of step 2 does
JobFailed(e) ==
    /\ Emit(<<Msg("error", <<"Failed to create job: ", e.text>>)>>)
    /\ pc' = "done"
    /\ UNCHANGED <<job_id, blockchain_id, amount_lovelace, amount_ada, payment_details,
                   explorer_url>>

StartJobRecv(r) ==
    /\ pc = "start_job_wait"
    /\ responses' = Append(responses, r)
    /\ IF r.kind # "ok"
       THEN JobFailed(ExcOf(r)) /\ UNCHANGED job_data
       ELSE /\ job_data' = r.body
            /\ IF ~FirstRaise(JobReads(r.body)).ok
               THEN JobFailed(FirstRaise(JobReads(r.body)).exc)
               ELSE /\ job_id' = r.body.o["job_id"]
                    /\ blockchain_id' = r.body.o["blockchainIdentifier"]
                    /\ amount_lovelace' = AmountLovelace(r.body).v
                    /\ amount_ada' = ToAda(AmountInt(r.body).v)
                    /\ payment_details' = PaymentDetails(r.body, NETWORK)
                    /\ explorer_url' = ExplorerUrl(NETWORK, r.body.o["blockchainIdentifier"])
                    /\ Emit(<<Msg("success", <<"Job Created">>),
                              Msg("success", <<"Blockchain Contract">>),
                              Msg("success", <<"Payment Required">>),
                              Msg("info", <<"Track on explorer">>)>>)
                    /\ pc' = "purchase"
    /\ UNCHANGED <<emailv, envv, interrupt, now, requests, payload, payv, monv>>

(***************************************************************************)
(* Step 3: payment                                                         *)
(***************************************************************************)
\* variant: the payment request is started and not waited for
PurchaseSendNoWait ==
    /\ pc = "purchase"
    /\ Emit(<<Msg("header", <<"Step 3: Making Real Blockchain Payment from Your Wallet">>),
              Msg("info", <<"Initiating payment from your testnet wallet...">>)>>)
    /\ requests' = Append(requests, [to |-> "purchase", json |-> payment_details,
                                     token |-> PURCHASER_API_KEY])
    /\ pc' = "monitor"
    /\ UNCHANGED <<emailv, envv, interrupt, now, responses, payload, jobv, explorer_url, payv, monv>>

PurchaseSend ==
    /\ pc = "purchase"
    /\ Emit(<<Msg("header", <<"Step 3: Making Real Blockchain Payment from Your Wallet">>),
              Msg("info", <<"Initiating payment from your testnet wallet...">>)>>)
    /\ requests' = Append(requests, [to |-> "purchase", json |-> payment_details,
                                     token |-> PURCHASER_API_KEY])
    /\ pc' = "purchase_wait"
    /\ UNCHANGED <<emailv, envv, interrupt, now, responses, payload, jobv, explorer_url, payv, monv>>

\* payment_result.get("data", {}).get(key)
DataGet(pr, key) ==
    LET data == Get(pr, "data", EmptyObj)
    IN  IF data.ok THEN Get(data.v, key, Null) ELSE data

\* payment_result.get("data", {}).get("txHash") or
\* payment_result.get("data", {}).get("transactionHash")
TxHash(pr) ==
    IF DataGet(pr, "txHash").ok /\ ~Truthy(DataGet(pr, "txHash").v)
    THEN DataGet(pr, "transactionHash")
    ELSE DataGet(pr, "txHash")

Submitted == <<Msg("banner", <<"PAYMENT TRANSACTION SUBMITTED!">>)>>

\* variant: the HTTPError handler prints the exception but not the response body
PaymentRejectedNoBody(r) ==
    /\ Emit(<<Msg("error", <<"Payment failed: ", ExcOf(r).text>>),
              Msg("warning", <<"Possible issues:", "Insufficient test ADA in wallet",
                               "Wallet not registered properly", "Invalid API key">>)>>)
    /\ pc' = "done"
    /\ UNCHANGED <<tx_hash, explorer_url>>

\* variant: the HTTPError handler does not return, the run goes on to step 4
PaymentRejectedNoReturn(r) ==
    /\ Emit(<<Msg("error", <<"Payment failed: ", ExcOf(r).text>>),
              Msg("error", <<"Response: ", r.text>>),
              Msg("warning", <<"Possible issues:", "Insufficient test ADA in wallet",
                               "Wallet not registered properly", "Invalid API key">>)>>)
    /\ pc' = "monitor"
    /\ UNCHANGED <<tx_hash, explorer_url>>

\* except requests.exceptions.HTTPError
PaymentRejected(r) ==
    /\ Emit(<<Msg("error", <<"Payment failed: ", ExcOf(r).text>>),
              Msg("error", <<"Response: ", r.text>>),
              Msg("warning", <<"Possible issues:", "Insufficient test ADA in wallet",
                               "Wallet not registered properly", "Invalid API key">>)>>)
    /\ pc' = "done"
    /\ UNCHANGED <<tx_hash, explorer_url>>

\* variant: the handler submits the payment again
PaymentErrorRetry(before, e) ==
    /\ Emit(before \o <<Msg("error", <<"Payment error: ", e.text>>)>>)
    /\ pc' = "purchase"
    /\ UNCHANGED <<tx_hash, explorer_url>>

\* variant: the handler prints a fixed line without the exception
PaymentErrorNoText(before, e) ==
    /\ Emit(before \o <<Msg("error", <<"Payment error: ">>)>>)
    /\ pc' = "done"
    /\ UNCHANGED <<tx_hash, explorer_url>>

\* except Exception, after the lines `before` of the try block were printed
PaymentError(before, e) ==
    /\ Emit(before \o <<Msg("error", <<"Payment error: ", e.text>>)>>)
    /\ pc' = "done"
    /\ UNCHANGED <<tx_hash, explorer_url>>

\* the try block once response.json() has returned payment_result
PaymentAccepted(pr) ==
    IF ~TxHash(pr).ok
    THEN PaymentError(Submitted, TxHash(pr).exc)
    ELSE /\ tx_hash' = TxHash(pr).v
         /\ IF Truthy(TxHash(pr).v)
            THEN /\ explorer_url' = ExplorerUrl(NETWORK, TxHash(pr).v)
                 /\ Emit(Submitted \o
                         <<Msg("success", <<"Transaction Hash">>),
                           Msg("info", <<"View on Cardano Explorer">>),
                           Msg("banner", <<"Your wallet has sent ADA">>)>>)
            ELSE /\ UNCHANGED explorer_url
                 /\ Emit(Submitted \o <<Msg("banner", <<"Your wallet has sent ADA">>)>>)
         /\ pc' = "monitor"

PurchaseRecv(r) ==
    /\ pc = "purchase_wait"
    /\ responses' = Append(responses, r)
    /\ CASE r.kind = "http_error" ->
              PaymentRejected(r) /\ UNCHANGED payment_result
         [] r.kind \in {"transport", "ok_not_json"} ->
              PaymentError(<<>>, ExcOf(r)) /\ UNCHANGED payment_result
         [] r.kind = "ok" ->
              payment_result' = r.body /\ PaymentAccepted(r.body)
    /\ UNCHANGED <<emailv, envv, interrupt, now, requests, payload, jobv, monv>>

(***************************************************************************)
(* Step 4: monitoring                                                      *)
(***************************************************************************)
MonitorStart ==
    /\ pc = "monitor"
    /\ Emit(<<Msg("header", <<"Step 4: Monitoring Blockchain & Service Execution">>)>>)
    /\ start_time' = now
    /\ last_status' = Null
    /\ pc' = "while"
    /\ UNCHANGED <<emailv, envv, interrupt, now, netv, payload, jobv, explorer_url, payv>>

\* variant: the loop has no deadline
WithinBudgetForever(t, start) == TRUE

\* variant: the deadline itself still counts as within the budget
WithinBudgetInclusive(t, start) == t - start <= max_wait

\* `(time.time() - start_time) < max_wait`
WithinBudget(t, start) == t - start < max_wait

\* the loop condition, and the status request (noted with its time) when it holds
WhileTest ==
    /\ pc = "while"
    /\ IF WithinBudget(now, start_time)
       THEN /\ requests' = Append(requests, [to |-> "status", job_id |-> job_id, at |-> now])
            /\ pc' = "status_wait"
       ELSE /\ pc' = "summary"
            /\ UNCHANGED requests
    /\ UNCHANGED <<emailv, envv, interrupt, now, responses, out, payload, jobv, explorer_url, payv, monv>>

\* the line printed when the job status differs from the last one seen
StatusLine(elapsed, job_status, payment_status) ==
    [k |-> "status", elapsed |-> elapsed, job |-> job_status, payment |-> payment_status]

\* variant: a line for every successful poll
ChangedAlways(job_status, last) == TRUE

\* `job_status != last_status`
Changed(job_status, last) == job_status # last

\* variant: the reading of the wall clock is reported
ElapsedWallClock(t, start) == t

\* `int(time.time() - start_time)`
Elapsed(t, start) == t - start

\* lines printed for a status_data whose job status is completed
CompletedLines(status_data) ==
    <<Msg("banner", <<"SERVICE COMPLETED!">>)>> \o
    (IF Truthy(Get(status_data, "result", Null).v)
     THEN <<Msg("header", <<"Your AI Service Result">>),
            [k |-> "result", v |-> Get(status_data, "result", Null).v]>>
     ELSE <<>>)

FailedLines(status_data) ==
    <<Msg("error", <<"Service execution failed!">>), [k |-> "dump", v |-> status_data]>>

\* variant: the break after a completed status is missing
AfterPollNoBreak(job_status) ==
    IF job_status = Str("failed") THEN "summary" ELSE "sleep"

\* where the loop body goes after a poll: break on a terminal status, else sleep
AfterPoll(job_status) ==
    IF job_status = Str("completed") THEN "summary"
    ELSE IF job_status = Str("failed") THEN "summary"
    ELSE "sleep"

\* the body of the try block for a parsed status_data, d the time the request took
StatusOutcome(status_data, d) ==
    LET job_status == Get(status_data, "status", Null).v
        payment_status == Get(status_data, "payment_status", Null).v
        change == IF Changed(job_status, last_status)
                  THEN <<StatusLine(Elapsed(now + d, start_time), job_status,
                                    payment_status)>>
                  ELSE <<>>
    IN  /\ last_status' = job_status
        /\ Emit(change \o
                (IF job_status = Str("completed") THEN CompletedLines(status_data)
                 ELSE IF job_status = Str("failed") THEN FailedLines(status_data)
                 ELSE <<>>))
        /\ pc' = AfterPoll(job_status)

\* variant: a failed status query gives up monitoring
StatusErrorBreak(e) ==
    /\ Emit(<<Msg("error", <<"Status check error: ", e.text>>)>>)
    /\ pc' = "summary"
    /\ UNCHANGED last_status

\* except Exception inside the loop
StatusError(e) ==
    /\ Emit(<<Msg("error", <<"Status check error: ", e.text>>)>>)
    /\ pc' = "sleep"
    /\ UNCHANGED last_status

\* the response r is noted with the time it arrived
StatusRecv(r, d) ==
    /\ pc = "status_wait"
    /\ responses' = Append(responses, [at |-> now + d] @@ r)
    /\ now' = now + d
    /\ IF r.kind # "ok" THEN StatusError(ExcOf(r))
       ELSE IF ~IsObj(r.body) THEN StatusError(Get(r.body, "status", Null).exc)
       ELSE StatusOutcome(r.body, d)
    /\ UNCHANGED <<emailv, envv, interrupt, requests, payload, jobv, explorer_url, payv, start_time>>

\* asyncio.sleep(5): at least the interval, d longer
Sleep(d) ==
    /\ pc = "sleep"
    /\ interrupt = "none"
    /\ now' = now + poll_interval + d
    /\ pc' = "while"
    /\ UNCHANGED <<emailv, envv, interrupt, netv, out, payload, jobv, explorer_url, payv, monv>>

(***************************************************************************)
(* Step 5: summary                                                         *)
(***************************************************************************)
SummaryLines ==
    <<Msg("header", <<"Transaction Summary">>),
      [k |-> "sent", amount |-> amount_ada],
      Msg("check", <<"Transaction recorded on Cardano blockchain">>),
      Msg("check", <<"Smart contract received and verified payment">>),
      Msg("check", <<"AI service executed your request">>),
      Msg("check", <<"Result delivered to you">>),
      Msg("check", <<"Payment released to seller's wallet">>),
      [k |-> "verification", network |-> NETWORK, contract |-> blockchain_id,
       amount |-> amount_ada]>> \o
    (IF Truthy(tx_hash)
     THEN <<[k |-> "transaction", tx |-> tx_hash, explorer |-> explorer_url]>>
     ELSE <<>>) \o
    <<Msg("banner", <<"REAL BLOCKCHAIN TRANSACTION COMPLETE!">>),
      Msg("success", <<"This was a REAL transaction on Cardano testnet!">>)>>

Summary ==
    /\ pc = "summary"
    /\ Emit(SummaryLines)
    /\ pc' = "done"
    /\ UNCHANGED <<emailv, envv, interrupt, now, netv, payload, jobv, explorer_url, payv, monv>>

Polls == Cardinality(Sent("status"))

\* the overruns the environment may choose: once cap polls were made the sleep
\* lasts until the deadline has passed
Overruns(cap, choices) ==
    IF Polls >= cap THEN {max_wait - poll_interval} ELSE choices

Next ==
    \/ CheckCredential
    \/ AvailabilitySend
    \/ \E r \in AvailabilityResponses : AvailabilityRecv(r)
    \/ \E typed \in Inputs : CollectInput(typed)
    \/ InputEOF
    \/ StartJobSend
    \/ \E r \in StartJobResponses : StartJobRecv(r)
    \/ PurchaseSend
    \/ \E r \in PurchaseResponses : PurchaseRecv(r)
    \/ MonitorStart
    \/ WhileTest
    \/ \E r \in StatusResponses, d \in RequestDelays : StatusRecv(r, d)
    \/ \E d \in Overruns(MaxPolls, SleepOverruns) : Sleep(d)
    \/ Summary

Spec == Init /\ [][Next]_vars

(***************************************************************************)
(* The runs in which the services accept the job and the payment: one      *)
(* configuration and one answer for each request of steps 1 to 3, every    *)
(* answer for the status polls.                                            *)
(***************************************************************************)
PaidJob == HttpOk(Obj(JobDataA))
PaidReceipt == HttpOk(Obj([data |-> Obj([txHash |-> Str("abc123")])]))

MonitorInit ==
    /\ Init
    /\ PURCHASER_API_KEY = Str("purchaser-key")
    /\ NETWORK = "Preprod"

\* steps 1 to 3 of a run that is paid without incident
PaidSteps ==
    \/ CheckCredential
    \/ AvailabilitySend
    \/ AvailabilityRecv(HttpOkNotJson)
    \/ \E typed \in Inputs : CollectInput(typed)
    \/ StartJobSend
    \/ StartJobRecv(PaidJob)
    \/ PurchaseSend
    \/ PurchaseRecv(PaidReceipt)

MonitorNext ==
    \/ PaidSteps
    \/ MonitorStart
    \/ WhileTest
    \/ \E r \in StatusResponses, d \in RequestDelays : StatusRecv(r, d)
    \/ \E d \in Overruns(MonitorPolls, SleepOverruns) : Sleep(d)
    \/ Summary

MonitorSpec == MonitorInit /\ [][MonitorNext]_vars

(***************************************************************************)
(* User interrupt.  main() runs as the main task of asyncio.run().  Up to  *)
(* Python 3.10 a SIGINT raises KeyboardInterrupt in the running code at    *)
(* once.  From Python 3.11 on the first SIGINT only asks for the main task *)
(* to be cancelled: CancelledError is raised at the next await, and the    *)
(* blocking calls of requests are not awaits; a second SIGINT raises       *)
(* KeyboardInterrupt at once.  Neither exception is an Exception, so no    *)
(* except clause of main() catches it.                                     *)
(***************************************************************************)
Interrupted == <<Msg("interrupted", <<"Test interrupted by user">>)>>

\* SIGINT that raises KeyboardInterrupt in the running code
InterruptRaise ==
    /\ pc # "done"
    /\ interrupt' = "raised"
    /\ Emit(Interrupted)
    /\ pc' = "done"
    /\ UNCHANGED <<emailv, envv, now, netv, payload, jobv, explorer_url, payv, monv>>

\* first SIGINT under asyncio.run() of Python 3.11 and later
InterruptCancel ==
    /\ pc # "done"
    /\ interrupt = "none"
    /\ interrupt' = "pending"
    /\ UNCHANGED <<emailv, pc, envv, now, netv, out, payload, jobv, explorer_url, payv, monv>>

\* `await asyncio.sleep(5)` of a task that is to be cancelled
SleepCancelled ==
    /\ pc = "sleep"
    /\ interrupt = "pending"
    /\ Emit(Interrupted)
    /\ pc' = "done"
    /\ UNCHANGED <<emailv, envv, interrupt, now, netv, payload, jobv, explorer_url, payv, monv>>

InterruptNext ==
    \/ PaidSteps
    \/ MonitorStart
    \/ WhileTest
    \/ \E r \in StatusResponses, d \in RequestDelays : StatusRecv(r, d)
    \/ \E d \in Overruns(MaxPolls, SleepOverruns) : Sleep(d)
    \/ Summary
    \/ InterruptRaise
    \/ InterruptCancel
    \/ SleepCancelled

InterruptSpec == MonitorInit /\ [][InterruptNext]_vars

(***************************************************************************)
(* Runs in which the clock advances by exactly the poll interval on every  *)
(* iteration that does not end the loop.  The first TermPolls polls get    *)
(* any of the answers below; every later poll gets the answer of the poll  *)
(* before it, at once, so that a run that is never given a terminal status *)
(* goes on polling until the deadline.  Requests carry a timeout and the   *)
(* script is the only task of its event loop, so every step that is        *)
(* enabled is eventually taken.                                            *)
(***************************************************************************)
TermAnswers ==
    {HttpOk(StatusBody("pending", "paid")), HttpOk(StatusBody("running", "paid")),
     TransportError("ReadTimeout"),
     HttpOk(StatusBody("completed", "paid")), HttpOk(StatusBody("failed", "paid"))}

\* what the last request that returned was answered
LastAnswer == Without(responses[Len(responses)], "at")

Answers(cap, choices) == IF Polls > cap THEN {LastAnswer} ELSE choices
Delays(cap, choices) == IF Polls > cap THEN {0} ELSE choices

TermNext ==
    \/ PaidSteps
    \/ MonitorStart
    \/ WhileTest
    \/ \E r \in Answers(TermPolls, TermAnswers), d \in Delays(TermPolls, RequestDelays) :
          StatusRecv(r, d)
    \/ Sleep(0)
    \/ Summary

TermSpec == MonitorInit /\ [][TermNext]_vars /\ WF_vars(TermNext)

(***************************************************************************)
(* The email service: EmailService.execute_task of emailService.py.  The   *)
(* language model and the delivery provider are the environment.           *)
(***************************************************************************)
\* a key the caller left out of input_data
Absent == [t |-> "absent"]

Empty == Chars(<<>>)
Blank == Chars(<<" ">>)
Hi == Chars(<<"H", "i">>)
PaddedHi == Chars(<<" ", "H", "i", " ">>)
Yo == Chars(<<"Y", "o">>)
Address == Chars(<<"a", "@", "b">>)

InputData(r, s, b) ==
    LET all == [recipient_email |-> r, subject |-> s, body |-> b]
    IN  Obj([k \in {x \in DOMAIN all : all[x] # Absent} |-> all[k]])

EmailInputs ==
    {InputData(r, s, b) : r \in {Absent, Empty, Address},
                          s \in {Absent, Null, Empty, Hi, PaddedHi},
                          b \in {Empty, Blank, Yo}}

Whitespace == {" ", "\t", "\n"}

RECURSIVE LStrip(_)
LStrip(c) == IF c # <<>> /\ Head(c) \in Whitespace THEN LStrip(Tail(c)) ELSE c

RECURSIVE RStrip(_)
RStrip(c) ==
    IF c # <<>> /\ c[Len(c)] \in Whitespace THEN RStrip(SubSeq(c, 1, Len(c) - 1)) ELSE c

\* v.strip(): AttributeError when v is not a string
PyStrip(v) ==
    IF v.t = "str"
    THEN Ok(IF "c" \in DOMAIN v THEN Chars(RStrip(LStrip(v.c))) ELSE v)
    ELSE Raise("AttributeError", "object has no attribute 'strip'")

\* a or b
PyOr(a, b) == IF Truthy(a) THEN a ELSE b

(***************************************************************************)
(* What the language model answers.  A reply text is kept as its parts in  *)
(* order: prose without braces, a braced part that is not JSON, or the     *)
(* text of a JSON value.  Arrays in replies hold no objects, so the only   *)
(* braces of a JSON part are those of an object.                           *)
(***************************************************************************)
Prose == [seg |-> "prose"]
Braced == [seg |-> "braced"]
Json(v) == [seg |-> "json", v |-> v]
Text(segs) == [t |-> "text", segs |-> segs]

\* chain.invoke raised
InvokeRaises == [kind |-> "raise", exc |-> Exc("ResourceExhausted", "429 quota exceeded")]
\* chain.invoke returned a message with this content
Content(c) == [kind |-> "content", content |-> c]

Enhancement == Obj([subject |-> Chars(<<"N", "e", "w">>),
                    body |-> Chars(<<"D", "e", "a", "r", " ">>)])

ReplyObjects ==
    {Enhancement,
     Obj([subject |-> Chars(<<"N", "e", "w">>)]),
     Obj([subject |-> Blank, body |-> Yo]),
     Obj([subject |-> Num(5), body |-> Yo]),
     Obj([subject |-> Null, body |-> Null]),
     EmptyObj}

GeminiReplies ==
    {InvokeRaises}
    \cup {Content(Text(<<Json(o)>>)) : o \in ReplyObjects}
    \cup {Content(Text(<<Prose, Json(Enhancement), Prose>>)),
          Content(Text(<<Json(Enhancement), Prose, Json(Enhancement)>>)),
          Content(Text(<<Prose>>)),
          Content(Text(<<>>)),
          Content(Text(<<Prose, Braced>>)),
          Content(Text(<<Json(Arr(<<Num(1)>>))>>)),
          Content(Text(<<Json(Chars(<<"o", "k">>))>>)),
          Content(Text(<<Json(Null)>>)),
          Content(Arr(<<Str("part")>>))}

\* json.loads(text)
JsonLoads(text) ==
    IF text.t # "text"
    THEN Raise("TypeError", "the JSON object must be str, bytes or bytearray")
    ELSE IF Len(text.segs) = 1 /\ text.segs[1].seg = "json"
    THEN Ok(text.segs[1].v)
    ELSE Raise("JSONDecodeError", "Expecting value")

HasBrace(seg) == seg.seg = "braced" \/ (seg.seg = "json" /\ IsObj(seg.v))

Min(S) == CHOOSE x \in S : \A y \in S : x <= y
Max(S) == CHOOSE x \in S : \A y \in S : x >= y

\* re.search(r"\{.*\}", text, re.DOTALL): from the first brace to the last
ReSearch(text) ==
    LET braces == {i \in 1..Len(text.segs) : HasBrace(text.segs[i])}
    IN  IF braces = {} THEN Null
        ELSE Text(SubSeq(text.segs, Min(braces), Max(braces)))

\* the try of json.loads with its JSONDecodeError handler
ParseReply(text) ==
    LET whole == JsonLoads(text)
    IN  IF whole.ok \/ whole.exc.type # "JSONDecodeError" THEN whole
        ELSE IF ReSearch(text) = Null THEN whole
        ELSE JsonLoads(ReSearch(text))

\* (data.get(key) or original or "").strip()
NewField(data, key, original) ==
    IF ~Get(data, key, Null).ok THEN Get(data, key, Null)
    ELSE PyStrip(PyOr(PyOr(Get(data, key, Null).v, original), Empty))

\* "\n".join(keypoints) raises TypeError unless every keypoint is a string
JoinRaises(keypoints) == \E i \in 1..Len(keypoints) : keypoints[i].t # "str"

\* the body of the try in _enhance_email_with_gemini
Enhanced(reply, original_subject, original_body) ==
    IF JoinRaises(<<original_subject, original_body>>)
    THEN Raise("TypeError", "sequence item: expected str instance")
    ELSE IF reply.kind = "raise" THEN [ok |-> FALSE, exc |-> reply.exc]
    ELSE IF ~ParseReply(reply.content).ok THEN ParseReply(reply.content)
    ELSE LET data == ParseReply(reply.content).v
             new_subject == NewField(data, "subject", original_subject)
             new_body == NewField(data, "body", original_body)
         IN  IF ~new_subject.ok THEN new_subject
             ELSE IF ~new_body.ok THEN new_body
             ELSE Ok(<<new_subject.v, new_body.v>>)

ChatPromptTemplate == ChatGoogleGenerativeAI

\* the two guards ahead of the try
EnhancementUnavailable ==
    \/ ~Truthy(ChatGoogleGenerativeAI) \/ ~Truthy(ChatPromptTemplate)
    \/ ~Truthy(gemini_api_key)

\* variant: a failed enhancement returns an empty subject and body
EnhanceFailedEmpty(original_subject, original_body) == <<Empty, Empty>>

\* `except Exception`: the originals are returned
EnhanceFailed(original_subject, original_body) == <<original_subject, original_body>>

enhance_email_with_gemini(reply, original_subject, original_body) ==
    IF EnhancementUnavailable THEN <<original_subject, original_body>>
    ELSE IF Enhanced(reply, original_subject, original_body).ok
    THEN Enhanced(reply, original_subject, original_body).v
    ELSE EnhanceFailed(original_subject, original_body)

ServiceResult(recipient, subj, success, message) ==
    [recipient |-> recipient, subject |-> subj, success |-> success,
     message |-> message, task |-> "send_email"]

\* what send_transac_email does with the email it is given
ProviderOutcomes ==
    {[kind |-> "sent", message_id |-> Str("<202611041200.1@smtp-relay>")],
     [kind |-> "sent", message_id |-> Null],
     [kind |-> "raise", exc |-> Exc("ApiException", "(401) Unauthorized")],
     [kind |-> "raise", exc |-> Exc("MaxRetryError", "Max retries exceeded")]}

EmailInit ==
    /\ pc = "none"
    /\ PURCHASER_API_KEY = Null
    /\ NETWORK = "Preprod"
    /\ now = StartClock
    /\ requests = <<>>
    /\ responses = <<>>
    /\ out = <<>>
    /\ payload = Unset
    /\ job_data = Unset /\ job_id = Unset /\ blockchain_id = Unset
    /\ amount_lovelace = Unset /\ amount_ada = Unset
    /\ payment_details = Unset /\ explorer_url = Unset
    /\ payment_result = Unset /\ tx_hash = Unset
    /\ start_time = Unset /\ last_status = Unset
    /\ interrupt = "none"
    /\ ChatGoogleGenerativeAI \in {Null, Str("ChatGoogleGenerativeAI")}
    /\ gemini_api_key \in {Str(""), Str("google-key")}
    /\ brevo_api_key \in {Str(""), Str("brevo-key")}
    /\ sender_email \in {Str(""), Str("sender@b.example")}
    /\ email_pc = "idle"
    /\ input_data = Unset
    /\ recipient_email = Unset /\ subject = Unset /\ body = Unset
    /\ invoked = <<>> /\ send_calls = <<>>
    /\ result = Unset

\* execute_task is called: it reads its three inputs
ExecuteTask(d) ==
    /\ email_pc = "idle"
    /\ input_data' = d
    /\ recipient_email' = Get(d, "recipient_email", Empty).v
    /\ subject' = Get(d, "subject", Empty).v
    /\ body' = Get(d, "body", Empty).v
    /\ email_pc' = "enhance"
    /\ UNCHANGED <<mainv, ChatGoogleGenerativeAI, gemini_api_key, brevo_api_key,
                   sender_email, invoked, send_calls, result>>

\* the call of _enhance_email_with_gemini; reply is what chain.invoke does
Enhance(reply) ==
    /\ email_pc = "enhance"
    /\ subject' = enhance_email_with_gemini(reply, subject, body)[1]
    /\ body' = enhance_email_with_gemini(reply, subject, body)[2]
    /\ invoked' =
          IF EnhancementUnavailable \/ JoinRaises(<<subject, body>>) THEN invoked
          ELSE Append(invoked, [keypoints |-> <<subject, body>>, subject |-> subject,
                                body |-> body, reply |-> reply])
    /\ email_pc' = "validate"
    /\ UNCHANGED <<mainv, ChatGoogleGenerativeAI, gemini_api_key, brevo_api_key,
                   sender_email, input_data, recipient_email, send_calls, result>>

\* variant: the sender email is not validated
ValidationErrorNoSender ==
    IF ~Truthy(recipient_email) THEN Str("recipient_email is required")
    ELSE IF ~Truthy(subject) THEN Str("subject is required")
    ELSE IF ~Truthy(body) THEN Str("body is required")
    ELSE IF ~Truthy(brevo_api_key)
    THEN Str("Brevo API key not configured (BREVO_API_KEY missing)")
    ELSE Null

\* the message of the first validation that fails, Null when all pass
ValidationError ==
    IF ~Truthy(recipient_email) THEN Str("recipient_email is required")
    ELSE IF ~Truthy(subject) THEN Str("subject is required")
    ELSE IF ~Truthy(body) THEN Str("body is required")
    ELSE IF ~Truthy(brevo_api_key)
    THEN Str("Brevo API key not configured (BREVO_API_KEY missing)")
    ELSE IF ~Truthy(sender_email)
    THEN Str("Sender email not configured (SENDER_EMAIL missing)")
    ELSE Null

Validate ==
    /\ email_pc = "validate"
    /\ IF ValidationError # Null
       THEN /\ result' = ServiceResult(recipient_email, subject, FALSE, <<ValidationError>>)
            /\ email_pc' = "returned"
       ELSE /\ email_pc' = "send"
            /\ UNCHANGED result
    /\ UNCHANGED <<mainv, ChatGoogleGenerativeAI, gemini_api_key, brevo_api_key,
                   sender_email, input_data, recipient_email, subject, body,
                   invoked, send_calls>>

SendSmtpEmail ==
    [to |-> <<[email |-> recipient_email]>>,
     sender |-> [name |-> "Email Service", email |-> sender_email],
     subject |-> subject, text_content |-> body]

\* variant: only ApiException is handled, any other exception propagates
SendResultNoHandler(outcome) ==
    IF outcome.kind = "sent"
    THEN ServiceResult(recipient_email, subject, TRUE,
                       <<"Email sent successfully to ", recipient_email,
                         " (Message ID: ", outcome.message_id, ")">>)
    ELSE IF outcome.exc.type = "ApiException"
    THEN ServiceResult(recipient_email, subject, FALSE,
                       <<"Brevo API error: ", outcome.exc.text>>)
    ELSE [ok |-> FALSE, exc |-> outcome.exc]

\* the result execute_task builds from what the provider did
SendResult(outcome) ==
    IF outcome.kind = "sent"
    THEN ServiceResult(recipient_email, subject, TRUE,
                       <<"Email sent successfully to ", recipient_email,
                         " (Message ID: ", outcome.message_id, ")">>)
    ELSE IF outcome.exc.type = "ApiException"
    THEN ServiceResult(recipient_email, subject, FALSE,
                       <<"Brevo API error: ", outcome.exc.text>>)
    ELSE ServiceResult(recipient_email, subject, FALSE,
                       <<"Error sending email: ", outcome.exc.text>>)

\* the try of execute_task: the send call and its two handlers
SendEmail(outcome) ==
    /\ email_pc = "send"
    /\ send_calls' = Append(send_calls, [email |-> SendSmtpEmail, outcome |-> outcome])
    /\ result' = SendResult(outcome)
    /\ email_pc' = "returned"
    /\ UNCHANGED <<mainv, ChatGoogleGenerativeAI, gemini_api_key, brevo_api_key,
                   sender_email, input_data, recipient_email, subject, body, invoked>>

EmailNext ==
    \/ \E d \in EmailInputs : ExecuteTask(d)
    \/ \E reply \in GeminiReplies : Enhance(reply)
    \/ Validate
    \/ \E outcome \in ProviderOutcomes : SendEmail(outcome)

EmailSpec == EmailInit /\ [][EmailNext]_vars

(***************************************************************************)
(* Properties                                                              *)
(***************************************************************************)
\* the i-th request has returned, was sent to `to`, and its outcome satisfies P
Returned(i, to, P(_)) ==
    /\ i \in 1..Len(responses)
    /\ requests[i].to = to
    /\ P(responses[i])

RequestFailed(r) == r.kind \in {"transport", "http_error"}

\* C1: once the availability check has failed (network error or non-success
\* response), the availability request stays the last request ever issued: no
\* job-creation request, no payment request and no status poll follows it.
C1_NoRequestAfterFailedAvailability ==
    \A i \in 1..Len(responses) :
        Returned(i, "availability", RequestFailed) => Len(requests) = i /\ pc = "done"

C1_Witness ==
    /\ pc = "done"
    /\ Returned(1, "availability", LAMBDA r : r.kind = "http_error")
    /\ Sent("availability") = {1}

CredentialAbsent == PURCHASER_API_KEY \in {Null, Str("")}

\* C2: in a run whose PURCHASER_API_KEY is absent or empty no request of any
\* kind is ever issued, and the run ends at the credential check.
C2_NoRequestWithoutCredential ==
    CredentialAbsent => requests = <<>> /\ pc \in {"config", "done"}

C2_Witness ==
    /\ PURCHASER_API_KEY = Str("")
    /\ pc = "done"
    /\ requests = <<>>

IsDigit(ch) == ch \in {"0", "1", "2", "3", "4", "5", "6", "7", "8", "9"}

NumericAmount(a) ==
    \/ a.t = "num"
    \/ a.t = "str" /\ "c" \in DOMAIN a /\ a.c # <<>> /\ \A n \in 1..Len(a.c) : IsDigit(a.c[n])

\* the body carries every field of the JobHandle and the PaymentDescriptor
CompleteJobBody(b) ==
    /\ b.t = "obj"
    /\ RequiredKeys \subseteq DOMAIN b.o
    /\ b.o["amounts"].t = "arr"
    /\ b.o["amounts"].a # <<>>
    /\ b.o["amounts"].a[1].t = "obj"
    /\ "amount" \in DOMAIN b.o["amounts"].a[1].o
    /\ NumericAmount(b.o["amounts"].a[1].o["amount"])

JobCreationUnusable(r) == r.kind # "ok" \/ ~CompleteJobBody(r.body)

\* C3: when the job-creation request fails or its response lacks a field needed
\* for the JobHandle or the PaymentDescriptor, the run aborts: the job-creation
\* request stays the last request issued (no payment, no status poll, no repeat).
C3_AbortOnUnusableJobResponse ==
    \A i \in 1..Len(responses) :
        Returned(i, "start_job", JobCreationUnusable) =>
            /\ Len(requests) = i
            /\ pc = "done"
            /\ Cardinality(Sent("start_job")) = 1

C3_Witness ==
    /\ pc = "done"
    /\ Returned(2, "start_job",
                LAMBDA r : r.kind = "ok" /\ r.body.t = "obj"
                           /\ DOMAIN r.body.o = RequiredKeys \ {"payByTime"})
    /\ Len(requests) = 2

DescriptorFields ==
    {"blockchainIdentifier", "network", "inputHash", "sellerVkey", "agentIdentifier",
     "paymentType", "unlockTime", "externalDisputeUnlockTime", "submitResultTime",
     "payByTime", "identifierFromPurchaser", "amounts"}

\* the key of the job-creation response a descriptor field is named after
ResponseKey(f) ==
    CASE f = "inputHash" -> "input_hash"
      [] f = "sellerVkey" -> "sellerVKey"
      [] OTHER -> f

\* the descriptor fields main() copies from the job-creation response
ForwardedFields == DescriptorFields \ {"network", "paymentType"}

\* C4 as stated: every one of the twelve descriptor fields sent to the payment
\* service, network and paymentType included, carries the value the
\* job-creation response supplied for it.
C4_AllTwelveFromResponse ==
    \A i \in Sent("purchase") :
        /\ DOMAIN requests[i].json.o = DescriptorFields
        /\ \A f \in DescriptorFields :
              ResponseKey(f) \in DOMAIN job_data.o =>
                  requests[i].json.o[f] = job_data.o[ResponseKey(f)]

\* C4 (amended): the descriptor sent to the payment service has exactly the
\* twelve fields; the ten fields copied from the job-creation response carry the
\* response's values unchanged (the amounts sequence in order and with the
\* amounts as received, not as converted for display); network is the
\* configured NETWORK and paymentType the literal Web3CardanoV1, whatever the
\* response supplies for them.
C4_DescriptorForwarded ==
    \A i \in Sent("purchase") :
        /\ DOMAIN requests[i].json.o = DescriptorFields
        /\ \A f \in ForwardedFields :
              requests[i].json.o[f] = job_data.o[ResponseKey(f)]
        /\ requests[i].json.o["network"] = Str(NETWORK)
        /\ requests[i].json.o["paymentType"] = Str("Web3CardanoV1")

C4_Witness ==
    /\ Sent("purchase") # {}
    /\ job_data = Obj(JobDataB)
    /\ Len(requests[3].json.o["amounts"].a) = 2
    /\ amount_ada = [whole |-> 1, micro |-> 500000]

\* positions in out of the lines of kind k whose text is text
Lines(k, text) == {j \in 1..Len(out) : out[j].k = k /\ out[j].text = text}

Step3Header == <<"Step 3: Making Real Blockchain Payment from Your Wallet">>

\* step 4 has been entered
MonitorEntered ==
    Lines("header", <<"Step 4: Monitoring Blockchain & Service Execution">>) # {}

\* C5: at most one payment-submission request is ever issued, and exactly one
\* in every run that has reached the payment stage; a failed submission is not
\* issued again.
C5_OnePaymentRequest ==
    /\ Cardinality(Sent("purchase")) <= 1
    /\ Lines("header", Step3Header) # {} => Cardinality(Sent("purchase")) = 1
    /\ \A i \in 1..Len(responses) :
          Returned(i, "purchase", RequestFailed) => Len(requests) = i

C5_Witness ==
    /\ pc = "done"
    /\ Returned(3, "purchase", LAMBDA r : r.kind = "transport")
    /\ Cardinality(Sent("purchase")) = 1
    /\ Lines("header", Step3Header) # {}

\* C6: after a payment submission that failed, by a rejection of the payment
\* service or by a transport failure, the run is over: no status poll is issued
\* and the monitor is not entered.
C6_AbortOnPaymentFailure ==
    \A i \in 1..Len(responses) :
        Returned(i, "purchase", RequestFailed) =>
            /\ pc = "done"
            /\ Sent("status") = {}
            /\ ~MonitorEntered

C6_Witness ==
    /\ pc = "done"
    /\ Returned(3, "purchase", LAMBDA r : r.kind = "http_error" /\ r.text = "")
    /\ Sent("status") = {}

\* the text s is part of a printed error line
InErrorText(s) ==
    \E j \in 1..Len(out) :
        out[j].k = "error" /\ \E n \in 1..Len(out[j].text) : out[j].text[n] = s

\* C7: when the payment service rejects the purchase with an HTTP error, the
\* response body appears verbatim in an error line of the run.
C7_RejectionBodyReported ==
    \A i \in 1..Len(responses) :
        Returned(i, "purchase", LAMBDA r : r.kind = "http_error") =>
            InErrorText(responses[i].text)

C7_Witness ==
    /\ Returned(3, "purchase", LAMBDA r : r.kind = "http_error")
    /\ responses[3].text = InsufficientFunds
    /\ InErrorText(InsufficientFunds)

\* lines of advice (warning or guidance) printed in the payment stage
PaymentAdvice ==
    {j \in 1..Len(out) :
        /\ out[j].k \in {"warning", "guidance"}
        /\ \E h \in Lines("header", Step3Header) : h < j}

\* C8 as stated: after a transport-level failure of the payment submission the
\* output carries an instruction to the caller (to verify out-of-band whether
\* the payment went through before retrying).
C8_VerifyInstructionPrinted ==
    \A i \in 1..Len(responses) :
        Returned(i, "purchase", LAMBDA r : r.kind = "transport") => PaymentAdvice # {}

\* C8 (amended): after a transport-level failure of the payment submission the
\* run ends with one error line, "Payment error: " followed by the text of the
\* exception, as its last output, and prints no advice to the caller.
C8_TransportFailureReported ==
    \A i \in 1..Len(responses) :
        Returned(i, "purchase", LAMBDA r : r.kind = "transport") =>
            /\ pc = "done"
            /\ out[Len(out)].k = "error"
            /\ out[Len(out)].text = <<"Payment error: ", responses[i].exc.text>>
            /\ PaymentAdvice = {}

C8_Witness ==
    /\ pc = "done"
    /\ Returned(3, "purchase",
                LAMBDA r : r.kind = "transport" /\ r.exc.type = "ReadTimeout")
    /\ Lines("error", <<"Payment error: ", "ReadTimeout">>) # {}

\* a parsed success body of the payment service that carries no transaction handle
NoHandle(b) ==
    /\ b.t = "obj"
    /\ \/ "data" \notin DOMAIN b.o
       \/ b.o["data"].t = "null"
       \/ /\ b.o["data"].t = "obj"
          /\ "txHash" \notin DOMAIN b.o["data"].o
          /\ "transactionHash" \notin DOMAIN b.o["data"].o

\* C9: a success response of the payment service without a transaction handle
\* (data absent, empty, null, or without txHash and transactionHash) is not an
\* error: the run goes on to monitoring with the handle unrecorded.
C9_MissingHandleTolerated ==
    \A i \in 1..Len(responses) :
        Returned(i, "purchase", LAMBDA r : r.kind = "ok" /\ NoHandle(r.body)) =>
            /\ pc = "monitor" \/ MonitorEntered
            /\ tx_hash = Null
            /\ Lines("error", <<"Payment error: ", "object has no attribute 'get'">>) = {}

\* a poll answer whose job status is s
Reports(r, s) ==
    /\ r.kind = "ok"
    /\ r.body.t = "obj"
    /\ "status" \in DOMAIN r.body.o
    /\ r.body.o["status"] = Str(s)

CompletedBanner == Lines("banner", <<"SERVICE COMPLETED!">>)
FailedReport == Lines("error", <<"Service execution failed!">>)

\* C10: when a status poll returns completed (failed), the Completed (Failed)
\* transition is reported exactly once and that poll stays the last request of
\* the run; and from any state in which the monitor loop has been left
\* (Completed, Failed or deadline reached) no request is issued any more.
C10_TerminalStopsPolling ==
    /\ [](\A i \in 1..Len(responses) :
            /\ Returned(i, "status", LAMBDA r : Reports(r, "completed")) =>
                  /\ Len(requests) = i
                  /\ Cardinality(CompletedBanner) = 1
                  /\ FailedReport = {}
            /\ Returned(i, "status", LAMBDA r : Reports(r, "failed")) =>
                  /\ Len(requests) = i
                  /\ Cardinality(FailedReport) = 1
                  /\ CompletedBanner = {})
    /\ [][MonitorEntered /\ pc \in {"summary", "done"} => requests' = requests]_vars

C10_Witness ==
    /\ pc = "done"
    /\ Len(responses) = 5
    /\ Returned(4, "status", LAMBDA r : Reports(r, "running"))
    /\ Returned(5, "status", LAMBDA r : Reports(r, "completed"))
    /\ Cardinality(CompletedBanner) = 1

\* a status poll that did not yield a status: transport error, HTTP error
\* status, unparsable body, or a body that is not a JSON object
PollFailed(r) ==
    \/ r.kind \in {"transport", "http_error", "ok_not_json"}
    \/ r.kind = "ok" /\ r.body.t # "obj"

\* C11: every status poll, the ones after a failed poll included, is started
\* at a time before the deadline start_time + max_wait.
C11_NoPollAtOrAfterDeadline ==
    \A i \in Sent("status") : requests[i].at < start_time + max_wait

C11_Witness ==
    /\ pc = "summary"
    /\ Polls = 1
    /\ Returned(Len(responses), "status", PollFailed)
    /\ now = start_time + max_wait

Step4Header == <<"Step 4: Monitoring Blockchain & Service Execution">>
SummaryHeader == <<"Transaction Summary">>

\* positions of the lines printed by the monitor: after the header of step 4
\* and before the header of the summary
MonitorLines ==
    {j \in 1..Len(out) :
        /\ \E h \in Lines("header", Step4Header) : h < j
        /\ \A h \in Lines("header", SummaryHeader) : j < h}

\* a monitor line that is neither a status-change line nor the report of a
\* failed poll
OutcomeLine(j) ==
    /\ out[j].k # "status"
    /\ ~(out[j].k = "error" /\ out[j].text[1] = "Status check error: ")

\* the loop was left because the deadline was reached: the run is past the
\* loop and no poll returned completed or failed
DeadlineReached ==
    /\ pc \in {"summary", "done"}
    /\ MonitorEntered
    /\ \A i \in 1..Len(responses) :
          ~Returned(i, "status", LAMBDA r : Reports(r, "completed") \/ Reports(r, "failed"))

\* C12: when the monitor loop ends at the deadline with no poll having returned
\* completed or failed, the monitor prints a report of this outcome (timed out,
\* outcome unknown), a line of its own that is neither the Completed banner nor
\* the Failed report.
C12_TimedOutReported ==
    DeadlineReached =>
        \E j \in MonitorLines :
            /\ OutcomeLine(j)
            /\ j \notin CompletedBanner
            /\ j \notin FailedReport

\* this step receives the answer of a status poll, and the poll failed
FailedPollStep ==
    /\ pc = "status_wait"
    /\ Len(responses') = Len(responses) + 1
    /\ PollFailed(responses'[Len(responses')])

\* this step issues a status poll
PollStep ==
    /\ Len(requests') = Len(requests) + 1
    /\ requests'[Len(requests')].to = "status"

\* C13: a failed status query does not end the loop: it is followed by the
\* sleep of poll_interval (last_status untouched), the sleep by the loop test,
\* and the loop test by a new poll whenever the deadline has not been reached;
\* a completed or failed status returned after a failed poll is acted on as
\* the terminal outcome.
C13_FailedPollRetried ==
    /\ [][FailedPollStep => pc' = "sleep" /\ last_status' = last_status]_vars
    /\ [][pc = "sleep" =>
            pc' = "while" /\ now' >= now + poll_interval /\ requests' = requests]_vars
    /\ [][pc = "while" /\ now < start_time + max_wait => pc' = "status_wait" /\ PollStep]_vars
    /\ [](\A i \in 1..Len(responses) :
            (\E j \in 1..(i - 1) : Returned(j, "status", PollFailed)) =>
                /\ Returned(i, "status", LAMBDA r : Reports(r, "completed")) =>
                      pc \in {"summary", "done"} /\ Cardinality(CompletedBanner) = 1
                /\ Returned(i, "status", LAMBDA r : Reports(r, "failed")) =>
                      pc \in {"summary", "done"} /\ Cardinality(FailedReport) = 1)

C13_Witness ==
    /\ pc = "done"
    /\ Returned(4, "status", LAMBDA r : r.kind = "transport")
    /\ Returned(5, "status", LAMBDA r : Reports(r, "failed"))
    /\ requests[5].at = requests[4].at + poll_interval
    /\ Cardinality(FailedReport) = 1

\* the i-th request was a status poll that returned a parsed status object
PollSucceeded(i) ==
    /\ i \in 1..Len(responses)
    /\ requests[i].to = "status"
    /\ ~PollFailed(responses[i])

\* the job status the i-th response carries, None when it carries none
StatusOf(i) ==
    IF "status" \in DOMAIN responses[i].body.o THEN responses[i].body.o["status"] ELSE Null

RECURSIVE ChangePolls(_, _, _, _)
\* the successful polls from i on whose status differs from that of the
\* successful poll before (last, None before the first one); with firstAlways
\* the first successful poll counts whatever its status
ChangePolls(i, last, first, firstAlways) ==
    IF i > Len(responses) THEN <<>>
    ELSE IF ~PollSucceeded(i) THEN ChangePolls(i + 1, last, first, firstAlways)
    ELSE (IF StatusOf(i) # last \/ (first /\ firstAlways) THEN <<i>> ELSE <<>>)
            \o ChangePolls(i + 1, StatusOf(i), FALSE, firstAlways)

\* the status-change lines printed so far, in order
ChangeLines == SelectSeq(out, LAMBDA m : m.k = "status")

\* the change lines are those of the polls ps: one line per poll, in order,
\* with the job and payment status that poll returned
ChangeLinesAre(ps) ==
    /\ Len(ChangeLines) = Len(ps)
    /\ \A n \in 1..Len(ps) :
          /\ ChangeLines[n].job = StatusOf(ps[n])
          /\ ChangeLines[n].payment = responses[ps[n]].body.o["payment_status"]

\* C14 as stated: a change record is printed on exactly the successful polls
\* whose job status differs from that of the previous successful poll, the
\* first successful poll always printing one; failed polls print none.
C14_ChangeLineFirstAlways ==
    ChangeLinesAre(ChangePolls(1, Null, TRUE, TRUE))

\* C14 (amended): a change record is printed on exactly the successful polls
\* whose job status (None when the answer carries no status) differs from
\* last_status, which is None before the first successful poll and afterwards
\* the job status of the most recent successful poll; failed polls print none
\* and leave last_status alone.  The same status polled K >= 1 times prints
\* one record.
C14_ChangeLinePerTransition ==
    ChangeLinesAre(ChangePolls(1, Null, TRUE, FALSE))

C14_Witness ==
    /\ Returned(4, "status", LAMBDA r : Reports(r, "pending"))
    /\ Returned(5, "status", PollFailed)
    /\ Returned(6, "status", LAMBDA r : Reports(r, "pending"))
    /\ Len(ChangeLines) = 1

\* C15: at most one request is in flight at any time: a request is issued only
\* when every earlier request has returned; the payment request directly
\* follows the returned job-creation request, the first status poll the
\* returned payment request, and a status poll is never started before the
\* answer, error or timeout of the poll before it was observed.
C15_OneRequestInFlight ==
    /\ [](Len(requests) - Len(responses) \in {0, 1})
    /\ [][Len(requests') > Len(requests) =>
            Len(requests') = Len(requests) + 1 /\ Len(responses) = Len(requests)]_vars
    /\ [](\A i \in 2..Len(requests) :
            /\ requests[i].to = "purchase" => requests[i - 1].to = "start_job"
            /\ requests[i].to = "status" =>
                  /\ requests[i - 1].to \in {"purchase", "status"}
                  /\ requests[i - 1].to = "status" => requests[i].at >= responses[i - 1].at)

C15_Witness ==
    /\ pc = "status_wait"
    /\ Len(requests) = 5
    /\ Len(responses) = 4
    /\ requests[5].at = responses[4].at + poll_interval
    /\ responses[4].at > requests[4].at

\* a user interrupt has been delivered to the run
InterruptDelivered == interrupt # "none"

\* C16: once a user interrupt has been delivered, at whatever point of the
\* run, no request of any kind is issued any more.
C16_NoRequestAfterInterrupt ==
    [][InterruptDelivered => requests' = requests]_vars

\* what the caller supplied under key k ("" for a key left out)
Supplied(k) == IF k \in DOMAIN input_data.o THEN input_data.o[k] ELSE Empty

\* the enhancement step of the call has returned
EnhanceReturned == email_pc \in {"validate", "send", "returned"}

StepUnavailable == ChatGoogleGenerativeAI = Null \/ gemini_api_key = Str("")

\* the reply carries a JSON object somewhere in its text
CarriesObject(reply) ==
    /\ reply.kind = "content"
    /\ reply.content.t = "text"
    /\ \E i \in 1..Len(reply.content.segs) :
          reply.content.segs[i].seg = "json" /\ reply.content.segs[i].v.t = "obj"

\* the reply is the text of one JSON value that is not an object
NotAnObject(reply) ==
    /\ reply.kind = "content"
    /\ reply.content.t = "text"
    /\ Len(reply.content.segs) = 1
    /\ reply.content.segs[1].seg = "json"
    /\ reply.content.segs[1].v.t # "obj"

StepFailed ==
    /\ invoked # <<>>
    /\ \/ invoked[1].reply.kind = "raise"
       \/ ~CarriesObject(invoked[1].reply)
       \/ NotAnObject(invoked[1].reply)

\* C17: when the enhancement step is unavailable (library not imported, no
\* GOOGLE_API_KEY), or the model call raises, or the reply holds no JSON
\* object or is JSON that is not an object, the step returns and the subject
\* and body it returns are the ones the caller supplied, unchanged.
C17_FallbackToOriginals ==
    EnhanceReturned /\ (StepUnavailable \/ StepFailed) =>
        /\ subject = Supplied("subject")
        /\ body = Supplied("body")

\* the model answered with a JSON array and the padded subject came back as it was
C17_Witness ==
    /\ email_pc = "returned"
    /\ ~StepUnavailable
    /\ invoked # <<>>
    /\ NotAnObject(invoked[1].reply)
    /\ Supplied("subject") = PaddedHi
    /\ subject = PaddedHi
    /\ body = Blank

Filled(v) == v \notin {Null, Empty, Str("")}

\* the failure messages of the items that are missing
MissingItems ==
    {m \in {Str("recipient_email is required"), Str("subject is required"),
            Str("body is required"),
            Str("Brevo API key not configured (BREVO_API_KEY missing)"),
            Str("Sender email not configured (SENDER_EMAIL missing)")} :
        \/ m = Str("recipient_email is required") /\ ~Filled(recipient_email)
        \/ m = Str("subject is required") /\ ~Filled(subject)
        \/ m = Str("body is required") /\ ~Filled(body)
        \/ m = Str("Brevo API key not configured (BREVO_API_KEY missing)")
              /\ ~Filled(brevo_api_key)
        \/ m = Str("Sender email not configured (SENDER_EMAIL missing)")
              /\ ~Filled(sender_email)}

PendingPendingCompleted ==
    /\ Len(responses) >= 6
    /\ Returned(4, "status", LAMBDA r : Reports(r, "pending"))
    /\ Returned(5, "status", LAMBDA r : Reports(r, "pending"))
    /\ Returned(6, "status", LAMBDA r : Reports(r, "completed"))
    /\ requests[4].at = start_time
    /\ \A i \in 4..6 : responses[i].at = requests[i].at
    /\ \A i \in 5..6 : requests[i].at = responses[i - 1].at + poll_interval

\* C19: with requests taking no time and a poll interval of 5, the statuses
\* pending, pending, completed over three polls give exactly two change
\* records, pending at elapsed 0 and completed at elapsed 10, and exactly
\* three polls; in general the elapsed value of a change record is the time
\* from start_time to the moment the poll that observed the change returned.
C19_ElapsedSinceStart ==
    /\ PendingPendingCompleted =>
          /\ Len(ChangeLines) = 2
          /\ ChangeLines[1].job = Str("pending") /\ ChangeLines[1].elapsed = 0
          /\ ChangeLines[2].job = Str("completed") /\ ChangeLines[2].elapsed = 10
          /\ Polls = 3
    /\ LET ps == ChangePolls(1, Null, TRUE, FALSE)
       IN  /\ Len(ChangeLines) = Len(ps)
           /\ \A n \in 1..Len(ps) :
                 ChangeLines[n].elapsed = responses[ps[n]].at - start_time

C19_Witness ==
    /\ PendingPendingCompleted
    /\ pc = "done"
    /\ poll_interval = 5
    /\ responses[6].at = StartClock + 10

\* the run has gone through the monitor loop and left it
LoopLeft == MonitorEntered /\ pc \in {"summary", "done"}

\* C20: once monitoring has started the loop is always eventually left,
\* whatever the polls answer, when the clock advances by the poll interval on
\* every iteration that is not terminal: it is left on a completed status, on
\* a failed status, or at the deadline, after at most max_wait / poll_interval
\* polls.
C20_MonitorTerminates ==
    /\ MonitorEntered ~> LoopLeft
    /\ [](LoopLeft =>
             \/ Reports(responses[Len(responses)], "completed")
             \/ Reports(responses[Len(responses)], "failed")
             \/ now - start_time >= max_wait)
    /\ [](Polls <= max_wait \div poll_interval)

\* sixty polls, every one of them timing out, and the loop left at the deadline
C20_Witness ==
    /\ pc = "done"
    /\ MonitorEntered
    /\ Polls = max_wait \div poll_interval
    /\ PollFailed(responses[Len(responses)])
    /\ now - start_time = max_wait

\* the summary says that the service executed the request and delivered the result
SummaryClaimsDelivery ==
    \/ Lines("check", <<"AI service executed your request">>) # {}
    \/ Lines("check", <<"Result delivered to you">>) # {}

\* some status poll of the run returned completed
CompletedSeen ==
    \E i \in 1..Len(responses) :
        Returned(i, "status", LAMBDA r : Reports(r, "completed"))

\* C21: the summary states that the service executed the request and that the
\* result was delivered only in runs where a status poll returned completed,
\* not in runs that ended on a failed status or at the deadline.
C21_SummaryAgreesWithOutcome ==
    SummaryClaimsDelivery => CompletedSeen

\* execute_task has returned a ServiceResult (and not raised)
ReturnedResult == email_pc = "returned" /\ "success" \in DOMAIN result

\* the provider's send call was issued and returned without raising
SendReturned == send_calls # <<>> /\ send_calls[Len(send_calls)].outcome.kind = "sent"

\* the provider's send call was issued and raised
SendRaised == send_calls # <<>> /\ send_calls[Len(send_calls)].outcome.kind = "raise"

\* C22: execute_task reports provider failures as values: every call that
\* ends returns a ServiceResult; its success is True exactly when the
\* provider's send call was issued and returned without raising, and it is
\* False, with the text of the exception in the message, whenever that call
\* raised, be it the provider's ApiException or any other exception.
C22_ProviderFailuresAsValues ==
    email_pc = "returned" =>
        /\ ReturnedResult
        /\ result.success = TRUE <=> SendReturned
        /\ SendRaised =>
              /\ result.success = FALSE
              /\ Len(result.message) = 2
              /\ result.message[2] = send_calls[Len(send_calls)].outcome.exc.text

\* the send call raised an exception that is not the provider's ApiException
C22_Witness ==
    /\ ReturnedResult
    /\ SendRaised
    /\ send_calls[1].outcome.exc.type = "MaxRetryError"
    /\ result.success = FALSE
    /\ result.message = <<"Error sending email: ", "Max retries exceeded">>

====
